---- MODULE Spec2Model ----
(***************************************************************************)
(* Model of vrc-get-gui/src/commands/environment/packages.rs: the          *)
(* repository download commands (single download and batch import with     *)
(* progress events) and the package-cache commands.                        *)
(***************************************************************************)
EXTENDS Naturals, Integers, Sequences, FiniteSets, TLC

\* ------------------------------------------------------------------------
\* Bounds of the model
\* ------------------------------------------------------------------------

\* Largest number of descriptors in one batch import.
MaxBatch == 2

\* Largest snapshot version the package cache is followed to.
MaxVersion == 2
\* The calls of load counted for one snapshot.
MaxCalls == 2

\* ------------------------------------------------------------------------
\* Values
\* ------------------------------------------------------------------------

\* Option::None
None == "None"

\* Result of a failed url.parse()
ParseError == "ParseError"

CuratedUrl == "https://packages.vrchat.com/curated?download"
OfficialUrl == "https://packages.vrchat.com/official?download"
CuratedId == "com.vrchat.repos.curated"
OfficialId == "com.vrchat.repos.official"

\* URL strings a caller may pass.  "https://a" is well formed but not in
\* normal form; "not a url" is malformed.
UrlStrings == {"https://a", "https://a/", "https://b/", "not a url"}

\* Url::parse followed by Url::as_str: the normalised text of a well-formed
\* URL (an empty path becomes "/"), ParseError for a malformed string.
ParseUrl(s) ==
    CASE s = "https://a" -> "https://a/"
      [] s = "https://a/" -> "https://a/"
      [] s = "https://b/" -> "https://b/"
      [] s = CuratedUrl -> CuratedUrl
      [] s = OfficialUrl -> OfficialUrl
      [] OTHER -> ParseError

\* The parsed URLs a descriptor can carry.
Urls == {ParseUrl(s) : s \in UrlStrings} \ {ParseError}

\* Repository documents a server may answer with: declared url, id and name
\* are each optional.
Documents ==
    [kind : {"document"}, url : {None, "https://a/"}, id : {None, "a.repo", "x"},
     name : {None}]
        \cup {[kind |-> "document", url |-> None, id |-> "x", name |-> "N"],
              [kind |-> "document", url |-> None, id |-> None, name |-> "N"]}

\* What the network answers to one request: a document, or a transport or
\* parse failure.
NetError == [kind |-> "error", error |-> "e"]

\* No answer (no request was sent, or it is still in flight).
NoAnswer == [kind |-> "none"]

IsDocument(r) == r.kind = "document"
Responses == Documents \cup {NetError}

\* Stored user repositories (url and id are optional in a stored repository).
StoredA == [url |-> "https://a/", id |-> "a.repo", name |-> "Repo A"]
StoredB == [url |-> "https://b/", id |-> None, name |-> None]

\* Settings the program can have been started with.
InitialSettings ==
    {[user_repos |-> {}, user_packages |-> {},
      ignore_curated_repository |-> FALSE, ignore_official_repository |-> FALSE],
     [user_repos |-> {StoredA}, user_packages |-> {},
      ignore_curated_repository |-> TRUE, ignore_official_repository |-> TRUE],
     [user_repos |-> {StoredA}, user_packages |-> {},
      ignore_curated_repository |-> FALSE, ignore_official_repository |-> TRUE],
     [user_repos |-> {StoredA, StoredB}, user_packages |-> {},
      ignore_curated_repository |-> TRUE, ignore_official_repository |-> FALSE]}

\* TauriDownloadRepository
BadUrl == [type |-> "BadUrl"]
Duplicated == [type |-> "Duplicated"]
DownloadError(m) == [type |-> "DownloadError", message |-> m]
Success(v) == [type |-> "Success", value |-> v]

IsSuccess(d) == d.type = "Success"

\* Err(RustError) in place of an outcome: download_one_repository returns
\* Result<TauriDownloadRepository, RustError>.
RustError(m) == [type |-> "Err", error |-> m]
IsRustError(d) == d.type = "Err"

\* ------------------------------------------------------------------------
\* Duplicate guard
\* ------------------------------------------------------------------------

user_repo_urls(s) ==
    {r.url : r \in {x \in s.user_repos : x.url # None}}
        \cup (IF ~s.ignore_curated_repository THEN {CuratedUrl} ELSE {})
        \cup (IF ~s.ignore_official_repository THEN {OfficialUrl} ELSE {})

\* Variant: the official id is added when the official repository is
\* ignored.
user_repo_ids_OfficialInverted(s) ==
    {r.id : r \in {x \in s.user_repos : x.id # None}}
        \cup (IF ~s.ignore_curated_repository THEN {CuratedId} ELSE {})
        \cup (IF s.ignore_official_repository THEN {OfficialId} ELSE {})

user_repo_ids(s) ==
    {r.id : r \in {x \in s.user_repos : x.id # None}}
        \cup (IF ~s.ignore_curated_repository THEN {CuratedId} ELSE {})
        \cup (IF ~s.ignore_official_repository THEN {OfficialId} ELSE {})

\* ------------------------------------------------------------------------
\* Remote fetcher
\* ------------------------------------------------------------------------

\* Option::unwrap_or
unwrap_or(opt, default) == IF opt # None THEN opt ELSE default

\* repo.url().unwrap_or(repository_url)
ResolvedUrl(doc, repository_url) == unwrap_or(doc.url, repository_url)

\* repo.id().unwrap_or(url)
ResolvedId(doc, repository_url) ==
    unwrap_or(doc.id, ResolvedUrl(doc, repository_url))

\* Variant: a missing id falls back to the fetch URL, not to the resolved
\* url.
RemoteRepositoryInfo_IdFromFetchUrl(doc, repository_url) ==
    LET url == unwrap_or(doc.url, repository_url)
        id == unwrap_or(doc.id, repository_url)
    IN [id |-> id, url |-> url, display_name |-> unwrap_or(doc.name, id)]

\* The TauriRemoteRepositoryInfo of a fetched document (its package preview
\* list is not modelled).
RemoteRepositoryInfo(doc, repository_url) ==
    LET url == ResolvedUrl(doc, repository_url)
        id == ResolvedId(doc, repository_url)
    IN [id |-> id, url |-> url, display_name |-> unwrap_or(doc.name, id)]

\* Variant: the id check after the fetch is left out.
download_one_repository_NoIdCheck(repository_url, resp, known_urls, known_ids) ==
    IF repository_url \in known_urls
    THEN [out |-> Duplicated, io |-> <<>>]
    ELSE IF resp = NetError
    THEN [out |-> DownloadError(resp.error), io |-> <<repository_url>>]
    ELSE [out |-> Success(RemoteRepositoryInfo(resp, repository_url)),
          io |-> <<repository_url>>]

\* Variant: the known-URL check is made after the request instead of before.
download_one_repository_CheckAfterFetch(repository_url, resp, known_urls, known_ids) ==
    IF resp = NetError
    THEN [out |-> DownloadError(resp.error), io |-> <<repository_url>>]
    ELSE IF \/ repository_url \in known_urls
            \/ ResolvedId(resp, repository_url) \in known_ids
    THEN [out |-> Duplicated, io |-> <<repository_url>>]
    ELSE [out |-> Success(RemoteRepositoryInfo(resp, repository_url)),
          io |-> <<repository_url>>]

\* Variant: the resolved URL is checked against the known URLs as well.
download_one_repository_ResolvedUrlCheck(repository_url, resp, known_urls, known_ids) ==
    IF repository_url \in known_urls
    THEN [out |-> Duplicated, io |-> <<>>]
    ELSE IF resp = NetError
    THEN [out |-> DownloadError(resp.error), io |-> <<repository_url>>]
    ELSE IF \/ ResolvedUrl(resp, repository_url) \in known_urls
            \/ ResolvedId(resp, repository_url) \in known_ids
    THEN [out |-> Duplicated, io |-> <<repository_url>>]
    ELSE [out |-> Success(RemoteRepositoryInfo(resp, repository_url)),
          io |-> <<repository_url>>]

\* Variant: a failed download leaves the function by `?`.
download_one_repository_ErrorPropagates(repository_url, resp, known_urls, known_ids) ==
    IF repository_url \in known_urls
    THEN [out |-> Duplicated, io |-> <<>>]
    ELSE IF resp = NetError
    THEN [out |-> RustError(resp.error), io |-> <<repository_url>>]
    ELSE IF ResolvedId(resp, repository_url) \in known_ids
    THEN [out |-> Duplicated, io |-> <<repository_url>>]
    ELSE [out |-> Success(RemoteRepositoryInfo(resp, repository_url)),
          io |-> <<repository_url>>]

\* download_one_repository as a function of the answer the network gives.
\* io is the list of requests sent; resp is read only when a request is sent.
download_one_repository(repository_url, resp, known_urls, known_ids) ==
    IF repository_url \in known_urls
    THEN [out |-> Duplicated, io |-> <<>>]
    ELSE IF resp = NetError
    THEN [out |-> DownloadError(resp.error), io |-> <<repository_url>>]
    ELSE IF ResolvedId(resp, repository_url) \in known_ids
    THEN [out |-> Duplicated, io |-> <<repository_url>>]
    ELSE [out |-> Success(RemoteRepositoryInfo(resp, repository_url)),
          io |-> <<repository_url>>]

\* ------------------------------------------------------------------------
\* State
\* ------------------------------------------------------------------------

VARIABLES
    settings,       \* the persisted Settings
    command,        \* the download command in progress: [name, pc, args]
    repositories,   \* the batch's deserialised descriptors (their Urls)
    known,          \* the command's [urls, ids] snapshot of the known sets
    futures,        \* one record per download future: [pc, repo, downloaded, count]
    counter,        \* the batch's AtomicUsize
    emitted,        \* the progress values passed to ctx.emit, in order
    result,         \* what the command returned to its caller
    net,            \* the network requests sent: a set of [task, url]
    channel,        \* the batch's progress channel: [open, received]
    packages_state, \* PackagesState: [state, version, packages]
    load_lock,      \* the process recomputing the package cache, or None
    settings_guard, \* the process holding the load_mut guard, or None
    procs,          \* each cache command in progress: [cmd, pc, settings]
    h_floor,        \* history: packages_state.version when a mutating
                    \*   command last returned Ok
    h_max_returned, \* history: the largest version load or load_force
                    \*   has returned
    h_returned,     \* history: the version load or load_force returned last
    h_cleared,      \* history: a mutating command returned Ok since the
                    \*   last return of load or load_force
    h_force,        \* history: the last return of load_force: the state
                    \*   it was called in, the version it returned and the
                    \*   largest version returned before
    h_last_load     \* history: what the last environment_packages call
                    \*   got from load and returned and how many calls
                    \*   got it, while no mutating command and no
                    \*   load_force has returned since

fetch_vars ==
    <<command, repositories, known, futures, counter, emitted, result, net,
      channel>>

cache_vars == <<packages_state, load_lock, settings_guard, procs>>

history_vars ==
    <<h_floor, h_max_returned, h_returned, h_cleared, h_force, h_last_load>>

vars == <<settings, fetch_vars, cache_vars, history_vars>>

Idle == [name |-> "none", pc |-> "idle", args |-> <<>>]
NoResult == [kind |-> "none"]
Ok(v) == [kind |-> "Ok", value |-> v]
Err(e) == [kind |-> "Err", error |-> e]

\* The batch command was cancelled: no value is returned.
Cancelled == [kind |-> "Cancelled"]

\* A download future before its first poll.  repo is the network's answer.
NoFuture ==
    [pc |-> "init", repo |-> NoAnswer, downloaded |-> [type |-> "none"],
     count |-> None]

FetchInit ==
    /\ command = Idle
    /\ repositories = <<>>
    /\ known = [urls |-> {}, ids |-> {}]
    /\ futures = <<>>
    /\ counter = 0
    /\ emitted = <<>>
    /\ result = NoResult
    /\ net = {}
    /\ channel = [open |-> TRUE, received |-> <<>>]

\* The processes that run cache commands.
Procs == {"p1", "p2"}

NoSettings == [none |-> TRUE]
ProcIdle == [cmd |-> "none", pc |-> "idle", settings |-> NoSettings]
NoLoad == [valid |-> FALSE]

\* PackagesState after construction: Empty, no version given out yet.
EmptyState == [state |-> "Empty", version |-> 0, packages |-> <<>>]

\* No cache command is running and none has returned.
CacheIdle ==
    /\ load_lock = None
    /\ settings_guard = None
    /\ procs = [p \in Procs |-> ProcIdle]
    /\ h_floor = 0
    /\ h_max_returned = 0
    /\ h_returned = 0
    /\ h_cleared = FALSE
    /\ h_force = NoLoad
    /\ h_last_load = NoLoad

CacheInit ==
    /\ packages_state = EmptyState
    /\ CacheIdle

\* ------------------------------------------------------------------------
\* environment_download_repository
\* ------------------------------------------------------------------------

\* settings.load(io).await? fails: the command returns the error.
SettingsLoadFail(name, args) ==
    /\ command' = [name |-> name, pc |-> "returned", args |-> args]
    /\ result' = Err("io")
    /\ UNCHANGED <<repositories, known, futures, net>>

\* What a command returns for the Result download_one_repository gave it.
Returned(out) == IF IsRustError(out) THEN Err(out.error) ELSE Ok(out)

\* The command up to its first suspension on the network: the URL is
\* parsed, the known sets are read from the settings (or the settings fail
\* to load), and download_one_repository runs until it returns or sends its
\* request.
environment_download_repository(url) ==
    /\ command = Idle
    /\ IF ParseUrl(url) = ParseError
       THEN /\ command' = [name |-> "download", pc |-> "returned", args |-> <<url>>]
            /\ result' = Ok(BadUrl)
            /\ UNCHANGED <<repositories, known, futures, net>>
       ELSE \/ SettingsLoadFail("download", <<url>>)
            \/ LET parsed == ParseUrl(url)
                   urls == user_repo_urls(settings)
                   ids == user_repo_ids(settings)
                   call == download_one_repository(parsed, NetError, urls, ids)
               IN /\ repositories' = <<parsed>>
                  /\ known' = [urls |-> urls, ids |-> ids]
                  /\ IF call.io = <<>>
                     THEN /\ command' = [name |-> "download", pc |-> "returned",
                                         args |-> <<url>>]
                          /\ result' = Returned(call.out)
                          /\ UNCHANGED <<futures, net>>
                     ELSE /\ command' = [name |-> "download", pc |-> "running",
                                         args |-> <<url>>]
                          /\ futures' = <<[NoFuture EXCEPT !.pc = "fetching"]>>
                          /\ net' = net \cup {[task |-> 1, url |-> call.io[1]]}
                          /\ UNCHANGED result
    /\ UNCHANGED <<settings, counter, emitted, channel, cache_vars,
                   history_vars>>

\* The network answers the single download's request and the command returns.
DownloadResponse(resp) ==
    /\ command.name = "download"
    /\ command.pc = "running"
    /\ LET call == download_one_repository(repositories[1], resp,
                                           known.urls, known.ids)
       IN /\ futures' = <<[pc |-> "done", repo |-> resp, downloaded |-> call.out,
                         count |-> None]>>
          /\ result' = Returned(call.out)
    /\ command' = [command EXCEPT !.pc = "returned"]
    /\ UNCHANGED <<settings, repositories, known, counter, emitted, net,
                   channel>>
    /\ UNCHANGED <<cache_vars, history_vars>>

\* ------------------------------------------------------------------------
\* environment_import_download_repositories
\* ------------------------------------------------------------------------

\* Deserialisation of the repositories argument: every descriptor's url
\* field is a Url, so a string that does not parse fails the whole call.
DeserializeDescriptors(raw) ==
    IF \E i \in 1..Len(raw) : ParseUrl(raw[i]) = ParseError
    THEN Err("invalid args")
    ELSE Ok([i \in 1..Len(raw) |-> ParseUrl(raw[i])])

\* The command is invoked: its arguments are deserialised, the known sets
\* are read from the settings (or the settings fail to load), and one future
\* per descriptor is created.
environment_import_download_repositories(raw) ==
    /\ command = Idle
    /\ IF DeserializeDescriptors(raw).kind = "Err"
       THEN /\ command' = [name |-> "import", pc |-> "returned", args |-> raw]
            /\ result' = DeserializeDescriptors(raw)
            /\ UNCHANGED <<repositories, known, futures>>
       ELSE \/ SettingsLoadFail("import", raw) /\ UNCHANGED net
            \/ /\ command' = [name |-> "import", pc |-> "running", args |-> raw]
               /\ repositories' = DeserializeDescriptors(raw).value
               /\ known' = [urls |-> user_repo_urls(settings),
                            ids |-> user_repo_ids(settings)]
               /\ futures' = [i \in 1..Len(raw) |-> NoFuture]
               /\ UNCHANGED result
    /\ UNCHANGED <<settings, counter, emitted, net, channel, cache_vars,
                   history_vars>>

\* Variant: the value after the addition is returned.
fetch_add_NewValue(c) == [value |-> c + 1, counter |-> c + 1]

\* counter.fetch_add(1): the value before the addition.
fetch_add(c) == [value |-> c, counter |-> c + 1]

\* Variant: emit on a closed channel returns an error.
emit_ErrWhenClosed(ch, value) ==
    IF ch.open
    THEN [result |-> Ok("unit"),
          channel |-> [ch EXCEPT !.received = Append(@, value)]]
    ELSE [result |-> Err("closed"), channel |-> ch]

\* ctx.emit(value): an open channel hands the value to its receiver, a
\* closed one drops it; the call returns Ok either way.
emit(ch, value) ==
    [result |-> Ok("unit"),
     channel |-> IF ch.open THEN [ch EXCEPT !.received = Append(@, value)]
                 ELSE ch]

\* download_one_repository of future i has returned downloaded.  An Err
\* leaves the future by `?` and try_join_all ends the batch with it,
\* dropping the futures.
\* Otherwise the counter is incremented, the value fetch_add returned is
\* emitted (unwrap: an Err of emit panics and ends the batch), and the
\* future completes with its pair.
FutureDone(i, resp, downloaded) ==
    IF IsRustError(downloaded)
    THEN /\ result' = Err(downloaded.error)
         /\ command' = [command EXCEPT !.pc = "returned"]
         /\ futures' = <<>>
         /\ UNCHANGED <<counter, emitted, channel>>
    ELSE LET fa == fetch_add(counter)
             sent == emit(channel, fa.value)
         IN /\ counter' = fa.counter
            /\ emitted' = Append(emitted, fa.value)
            /\ channel' = sent.channel
            /\ IF sent.result.kind = "Err"
               THEN /\ result' = Err("panic")
                    /\ command' = [command EXCEPT !.pc = "returned"]
                    /\ futures' = <<>>
               ELSE /\ futures' = [futures EXCEPT ![i] =
                                    [pc |-> "done", repo |-> resp,
                                     downloaded |-> downloaded,
                                     count |-> fa.value]]
                    /\ UNCHANGED <<command, result>>

\* First poll of future i: download_one_repository returns at once, or
\* sends its request and suspends.
ImportPoll(i) ==
    /\ command.name = "import"
    /\ command.pc = "running"
    /\ i \in 1..Len(futures)
    /\ futures[i].pc = "init"
    /\ LET call == download_one_repository(repositories[i], NetError,
                                           known.urls, known.ids)
       IN IF call.io = <<>>
          THEN /\ FutureDone(i, NoAnswer, call.out)
               /\ UNCHANGED net
          ELSE /\ futures' = [futures EXCEPT ![i].pc = "fetching"]
               /\ net' = net \cup {[task |-> i, url |-> call.io[1]]}
               /\ UNCHANGED <<counter, emitted, channel, command, result>>
    /\ UNCHANGED <<settings, repositories, known>>
    /\ UNCHANGED <<cache_vars, history_vars>>

\* Variant: a future that ends as Success adds its id to the shared known
\* ids at once.
ImportResponse_LiveIds(i, resp) ==
    /\ command.name = "import"
    /\ command.pc = "running"
    /\ i \in 1..Len(futures)
    /\ futures[i].pc = "fetching"
    /\ LET call == download_one_repository(repositories[i], resp,
                                           known.urls, known.ids)
       IN /\ FutureDone(i, resp, call.out)
          /\ known' = IF IsSuccess(call.out)
                      THEN [known EXCEPT !.ids = @ \cup {call.out.value.id}]
                      ELSE known
    /\ UNCHANGED <<settings, repositories, net>>
    /\ UNCHANGED <<cache_vars, history_vars>>

\* The network answers future i's request.
ImportResponse(i, resp) ==
    /\ command.name = "import"
    /\ command.pc = "running"
    /\ i \in 1..Len(futures)
    /\ futures[i].pc = "fetching"
    /\ LET call == download_one_repository(repositories[i], resp,
                                           known.urls, known.ids)
       IN FutureDone(i, resp, call.out)
    /\ UNCHANGED <<settings, repositories, known, net>>
    /\ UNCHANGED <<cache_vars, history_vars>>

\* Variant: the loop never inserts the id of a Success it keeps.
RECURSIVE DedupPass_NoInsert(_, _)
DedupPass_NoInsert(results, ids) ==
    IF results = <<>>
    THEN [results |-> <<>>, user_repo_ids |-> ids]
    ELSE LET adding_repo == Head(results)[1]
             downloaded == Head(results)[2]
             rest == DedupPass_NoInsert(Tail(results), ids)
         IN IF IsSuccess(downloaded) /\ downloaded.value.id \in ids
            THEN [rest EXCEPT !.results =
                    <<<<adding_repo, Duplicated>>>> \o rest.results]
            ELSE [rest EXCEPT !.results = <<Head(results)>> \o rest.results]

\* The loop over results after try_join_all: a Success whose id is in
\* user_repo_ids becomes Duplicated, any other Success adds its id.
RECURSIVE DedupPass(_, _)
DedupPass(results, ids) ==
    IF results = <<>>
    THEN [results |-> <<>>, user_repo_ids |-> ids]
    ELSE LET adding_repo == Head(results)[1]
             downloaded == Head(results)[2]
         IN IF IsSuccess(downloaded) /\ downloaded.value.id \in ids
            THEN LET rest == DedupPass(Tail(results), ids)
                 IN [rest EXCEPT !.results =
                        <<<<adding_repo, Duplicated>>>> \o rest.results]
            ELSE LET rest == DedupPass(Tail(results),
                                 IF IsSuccess(downloaded)
                                 THEN ids \cup {downloaded.value.id}
                                 ELSE ids)
                 IN [rest EXCEPT !.results = <<Head(results)>> \o rest.results]

\* What try_join_all yields: the pairs in submission order.
Joined == [i \in 1..Len(futures) |-> <<repositories[i], futures[i].downloaded>>]

\* Variant: the batch download stores what it fetched, as the add does.
ImportJoin_AddsRepositories ==
    /\ command.name = "import"
    /\ command.pc = "running"
    /\ \A i \in 1..Len(futures) : futures[i].pc = "done"
    /\ LET pass == DedupPass(Joined, known.ids)
           added == {pass.results[i][2].value :
                        i \in {k \in 1..Len(pass.results) :
                                    IsSuccess(pass.results[k][2])}}
       IN /\ result' = Ok(pass.results)
          /\ known' = [known EXCEPT !.ids = pass.user_repo_ids]
          /\ settings' = [settings EXCEPT !.user_repos = @ \cup
                            {[url |-> v.url, id |-> v.id,
                              name |-> v.display_name] : v \in added}]
    /\ packages_state' = [packages_state EXCEPT !.state = "Empty",
                                                !.packages = <<>>]
    /\ command' = [command EXCEPT !.pc = "returned"]
    /\ UNCHANGED <<repositories, futures, counter, emitted, net, channel>>
    /\ UNCHANGED <<load_lock, settings_guard, procs, history_vars>>

\* Every future is done: the results are joined, re-scanned and returned.
ImportJoin ==
    /\ command.name = "import"
    /\ command.pc = "running"
    /\ \A i \in 1..Len(futures) : futures[i].pc = "done"
    /\ LET pass == DedupPass(Joined, known.ids)
       IN /\ result' = Ok(pass.results)
          /\ known' = [known EXCEPT !.ids = pass.user_repo_ids]
    /\ command' = [command EXCEPT !.pc = "returned"]
    /\ UNCHANGED <<settings, repositories, futures, counter, emitted, net,
                   channel>>
    /\ UNCHANGED <<cache_vars, history_vars>>

\* The caller cancels the running batch: the futures are dropped where they
\* are, with what they had fetched, and the command ends without a value.
ImportCancel ==
    /\ command.name = "import"
    /\ command.pc = "running"
    /\ command' = [command EXCEPT !.pc = "returned"]
    /\ result' = Cancelled
    /\ futures' = <<>>
    /\ UNCHANGED <<settings, repositories, known, counter, emitted, net,
                   channel>>
    /\ UNCHANGED <<cache_vars, history_vars>>

\* The receiver closes or drops the progress channel of the running batch.
ChannelClose ==
    /\ command.name = "import"
    /\ command.pc = "running"
    /\ channel.open
    /\ channel' = [channel EXCEPT !.open = FALSE]
    /\ UNCHANGED <<settings, command, repositories, known, futures, counter,
                   emitted, result, net>>
    /\ UNCHANGED <<cache_vars, history_vars>>

\* ------------------------------------------------------------------------
\* Package cache (PackagesState)
\* ------------------------------------------------------------------------

\* A package that comes from no repository (a local user package).
NoRepo == [kind |-> "none"]

Curated == [url |-> CuratedUrl, id |-> CuratedId, name |-> "Curated"]
Official == [url |-> OfficialUrl, id |-> OfficialId, name |-> "Official"]

\* The order in which repositories and user packages are merged.
RepositoryOrder == <<Official, Curated, StoredA, StoredB>>
UserPackageOrder == <<"/pk">>

\* The repositories a package collection is loaded from.
LoadedRepositories(s) ==
    s.user_repos
        \cup (IF ~s.ignore_curated_repository THEN {Curated} ELSE {})
        \cup (IF ~s.ignore_official_repository THEN {Official} ELSE {})

\* The recomputation: every known repository's packages merged with the
\* local user packages (one package per repository and per user package).
PackagesOf(s) ==
    LET InRepos(r) == r \in LoadedRepositories(s)
        InUser(path) == path \in s.user_packages
        repos == SelectSeq(RepositoryOrder, InRepos)
        user == SelectSeq(UserPackageOrder, InUser)
    IN [i \in 1..Len(repos) |-> [name |-> repos[i].url, repo |-> repos[i]]]
        \o [i \in 1..Len(user) |-> [name |-> user[i], repo |-> NoRepo]]

\* PackagesState::clear_cache: the state becomes Empty.
clear_cache(ps) == [ps EXCEPT !.state = "Empty", !.packages = <<>>]

\* What a recomputation commits that started at this version of the cache
\* with settings s: Loaded(version + 1, snapshot).
Recomputed(version, s) ==
    [state |-> "Loaded", version |-> version + 1, packages |-> PackagesOf(s)]

\* What load and load_force hand to their caller.
Snapshot(ps) == [version |-> ps.version, packages |-> ps.packages]

\* TauriPackage::new
TauriPackage(env_version, index, package) ==
    [env_version |-> env_version,
     index |-> index,
     name |-> package.name,
     source |-> IF package.repo # NoRepo
                THEN LET id == unwrap_or(package.repo.id, package.repo.url)
                     IN [type |-> "Remote", id |-> id,
                         display_name |-> unwrap_or(package.repo.name, id)]
                ELSE [type |-> "LocalUser"]]

\* The Vec<TauriPackage> environment_packages builds from a snapshot.
PackagesResponse(snapshot) ==
    LET version == snapshot.version
    IN [i \in 1..Len(snapshot.packages) |->
            TauriPackage(version, i - 1, snapshot.packages[i])]

Max(a, b) == IF a >= b THEN a ELSE b
Min(a, b) == IF a <= b THEN a ELSE b

\* History of a load or load_force, called in cache state from, that hands
\* out snapshot snap; response is what environment_packages returns for it.
RecordLoad(snap, by_load, from) ==
    /\ h_max_returned' = Max(h_max_returned, snap.version)
    /\ h_returned' = snap.version
    /\ h_cleared' = FALSE
    /\ h_force' =
        IF by_load THEN h_force
        ELSE [valid |-> TRUE, from |-> from, returned |-> snap.version,
              max_before |-> h_max_returned]
    /\ h_last_load' =
        IF ~by_load THEN NoLoad
        ELSE [valid |-> TRUE, snapshot |-> snap,
              response |-> PackagesResponse(snap),
              calls |-> IF h_last_load.valid /\ h_last_load.snapshot = snap
                        THEN Min(h_last_load.calls + 1, MaxCalls) ELSE 1]
    /\ UNCHANGED h_floor

\* ------------------------------------------------------------------------
\* environment_packages and environment_refetch_packages
\* ------------------------------------------------------------------------

\* Variant: the command calls load_force instead of load.
environment_packages_LoadForce(p) ==
    /\ procs[p] = ProcIdle
    /\ load_lock = None
    /\ load_lock' = p
    /\ procs' = [procs EXCEPT ![p] = [cmd |-> "environment_packages",
                                      pc |-> "recompute",
                                      settings |-> settings,
                                      version |-> packages_state.version,
                                      state |-> packages_state.state]]
    /\ UNCHANGED <<settings, fetch_vars, packages_state, settings_guard,
                   history_vars>>

\* The command up to its return or to the start of a recomputation:
\* settings.load, then packages.load, which hands out the snapshot of a
\* Loaded cache (the command then builds its response and returns) and
\* starts the recomputation of an Empty one.  The recomputation is a
\* critical section.
environment_packages(p) ==
    /\ procs[p] = ProcIdle
    /\ IF packages_state.state = "Loaded"
       THEN /\ RecordLoad(Snapshot(packages_state), TRUE, "Loaded")
            /\ UNCHANGED <<load_lock, procs>>
       ELSE /\ load_lock = None
            /\ load_lock' = p
            /\ procs' = [procs EXCEPT ![p] = [cmd |-> "environment_packages",
                                              pc |-> "recompute",
                                              settings |-> settings,
                                              version |-> packages_state.version,
                                      state |-> packages_state.state]]
            /\ UNCHANGED history_vars
    /\ UNCHANGED <<settings, fetch_vars, packages_state, settings_guard>>

\* Variant: the command calls load instead of load_force.
environment_refetch_packages_Load(p) ==
    /\ procs[p] = ProcIdle
    /\ IF packages_state.state = "Loaded"
       THEN /\ RecordLoad(Snapshot(packages_state), FALSE, "Loaded")
            /\ UNCHANGED <<load_lock, procs>>
       ELSE /\ load_lock = None
            /\ load_lock' = p
            /\ procs' = [procs EXCEPT ![p] =
                            [cmd |-> "environment_refetch_packages",
                             pc |-> "recompute", settings |-> settings,
                             version |-> packages_state.version,
                             state |-> packages_state.state]]
            /\ UNCHANGED history_vars
    /\ UNCHANGED <<settings, fetch_vars, packages_state, settings_guard>>

\* Variant: load_force recomputes outside the critical section.
environment_refetch_packages_NoLock(p) ==
    /\ procs[p] = ProcIdle
    /\ load_lock' = p
    /\ procs' = [procs EXCEPT ![p] = [cmd |-> "environment_refetch_packages",
                                      pc |-> "recompute",
                                      settings |-> settings,
                                      version |-> packages_state.version,
                                      state |-> packages_state.state]]
    /\ UNCHANGED <<settings, fetch_vars, packages_state, settings_guard,
                   history_vars>>

\* The command up to the start of the recomputation: settings.load, then
\* packages.load_force, which recomputes whatever the state is.
environment_refetch_packages(p) ==
    /\ procs[p] = ProcIdle
    /\ load_lock = None
    /\ load_lock' = p
    /\ procs' = [procs EXCEPT ![p] = [cmd |-> "environment_refetch_packages",
                                      pc |-> "recompute",
                                      settings |-> settings,
                                      version |-> packages_state.version,
                                      state |-> packages_state.state]]
    /\ UNCHANGED <<settings, fetch_vars, packages_state, settings_guard,
                   history_vars>>

\* The recomputation of p ends: the new snapshot is committed and handed
\* out, and the command returns.
RecomputeCommit(p) ==
    /\ procs[p].pc = "recompute"
    /\ packages_state.version < MaxVersion
    /\ LET new == Recomputed(procs[p].version, procs[p].settings)
       IN /\ packages_state' = new
          /\ RecordLoad(Snapshot(new), procs[p].cmd = "environment_packages",
                        procs[p].state)
    /\ procs' = [procs EXCEPT ![p] = ProcIdle]
    /\ load_lock' = None
    /\ UNCHANGED <<settings, fetch_vars, settings_guard>>

\* The recomputation of p fails (an io error): nothing is committed and the
\* command returns the error.
RecomputeFail(p) ==
    /\ procs[p].pc = "recompute"
    /\ procs' = [procs EXCEPT ![p] = ProcIdle]
    /\ load_lock' = None
    /\ UNCHANGED <<settings, fetch_vars, packages_state, settings_guard,
                   history_vars>>

\* ------------------------------------------------------------------------
\* Commands that change the settings or the downloaded files
\* ------------------------------------------------------------------------

\* The repository add_remote_repo stores for a URL.
RepositoryAt(url) == IF url = "https://a/" THEN StoredA ELSE StoredB

\* add_remote_repo: the download may fail, a URL already stored is refused,
\* otherwise the repository is added to the settings passed in.
add_remote_repo(s, url) ==
    {Err("download")}
        \cup (IF url \in {r.url : r \in s.user_repos}
              THEN {Err("already added")}
              ELSE {Ok([s EXCEPT !.user_repos = @ \cup {RepositoryAt(url)}])})

\* The loop of environment_import_add_repositories: the first failure ends
\* it.
RECURSIVE AddAll(_, _)
AddAll(s, list) ==
    IF list = <<>>
    THEN {Ok(s)}
    ELSE UNION {IF o.kind = "Err" THEN {o} ELSE AddAll(o.value, Tail(list)) :
                    o \in add_remote_repo(s, Head(list))}

\* Settings::remove_repo(|r| r.id() == Some(id))
remove_repo(s, id) ==
    [s EXCEPT !.user_repos = {r \in @ : r.id # id}]

\* Settings::add_user_package
add_user_package(s, path) ==
    IF path = "/bad" THEN [kind |-> "BadPackage"]
    ELSE IF path \in s.user_packages THEN [kind |-> "AlreadyAdded"]
    ELSE [kind |-> "Success",
          settings |-> [s EXCEPT !.user_packages = @ \cup {path}]]

\* Settings::remove_user_package
remove_user_package(s, path) ==
    [s EXCEPT !.user_packages = @ \ {path}]

\* What the callers pass to the commands of this section.
AddUrlStrings == {"https://a", "not a url"}
ImportLists == UNION {[1..n -> {"https://a/"}] : n \in 0..MaxBatch}
RemoveIds == {"a.repo", "https://b/"}
Picks == {"NoFolder", "NotUnicode", "/pk", "/bad"}
UserPackagePaths == {"/pk"}

\* The commands whose load_mut guard lives until the command returns.
GuardUntilReturn ==
    {"environment_add_repository", "environment_remove_repository",
     "environment_import_add_repositories"}

\* Process p, holding the load_mut guard, goes on to settings.save with the
\* changed settings.
ToSave(p, cmd, changed) ==
    /\ procs' = [procs EXCEPT ![p] = [cmd |-> cmd, pc |-> "save",
                                      settings |-> changed]]
    /\ settings_guard' = p
    /\ UNCHANGED <<settings, packages_state>>

\* Process p has returned value without success; its caller has yet to take
\* it.
Failed(cmd, value) ==
    [cmd |-> cmd, pc |-> "returned", settings |-> NoSettings, result |-> value]

\* Variant: clear_cache is called on the way out.
ReturnEarly_ClearCache(p, cmd, value) ==
    /\ procs' = [procs EXCEPT ![p] = Failed(cmd, value)]
    /\ packages_state' = clear_cache(packages_state)
    /\ UNCHANGED <<settings, settings_guard>>

\* Process p returns value at once, before anything was saved: the guard, if
\* taken, is dropped with the changes made through it.
ReturnEarly(p, cmd, value) ==
    /\ procs' = [procs EXCEPT ![p] = Failed(cmd, value)]
    /\ UNCHANGED <<settings, packages_state, settings_guard>>

environment_add_repository(p, url) ==
    /\ procs[p] = ProcIdle
    /\ IF ParseUrl(url) = ParseError
       THEN ReturnEarly(p, "environment_add_repository", Ok("BadUrl"))
       ELSE /\ settings_guard = None
            /\ \E o \in add_remote_repo(settings, ParseUrl(url)) :
                IF o.kind = "Err"
                THEN ReturnEarly(p, "environment_add_repository", o)
                ELSE ToSave(p, "environment_add_repository", o.value)
    /\ UNCHANGED <<fetch_vars, load_lock, history_vars>>

environment_remove_repository(p, id) ==
    /\ procs[p] = ProcIdle
    /\ settings_guard = None
    /\ ToSave(p, "environment_remove_repository", remove_repo(settings, id))
    /\ UNCHANGED <<fetch_vars, load_lock, history_vars>>

environment_import_add_repositories(p, list) ==
    /\ procs[p] = ProcIdle
    /\ settings_guard = None
    /\ \E o \in AddAll(settings, list) :
        IF o.kind = "Err"
        THEN ReturnEarly(p, "environment_import_add_repositories", o)
        ELSE ToSave(p, "environment_import_add_repositories", o.value)
    /\ UNCHANGED <<fetch_vars, load_lock, history_vars>>

\* clear_package_cache(io) removes the downloaded files (which the model
\* does not follow) or fails; after it only the call of clear_cache is left.
environment_clear_package_cache(p) ==
    /\ procs[p] = ProcIdle
    /\ \/ /\ procs' = [procs EXCEPT ![p] =
                            [cmd |-> "environment_clear_package_cache",
                             pc |-> "clear_cache", settings |-> NoSettings]]
          /\ UNCHANGED <<settings, packages_state, settings_guard>>
       \/ ReturnEarly(p, "environment_clear_package_cache", Err("io"))
    /\ UNCHANGED <<fetch_vars, load_lock, history_vars>>

environment_add_user_package_with_picker(p, pick) ==
    /\ procs[p] = ProcIdle
    /\ IF pick = "NoFolder"
       THEN ReturnEarly(p, "environment_add_user_package_with_picker",
                        Ok("NoFolderSelected"))
       ELSE IF pick = "NotUnicode"
       THEN ReturnEarly(p, "environment_add_user_package_with_picker",
                        Ok("InvalidSelection"))
       ELSE /\ settings_guard = None
            /\ LET added == add_user_package(settings, pick)
               IN IF added.kind = "BadPackage"
                  THEN ReturnEarly(p, "environment_add_user_package_with_picker",
                                   Ok("InvalidSelection"))
                  ELSE IF added.kind = "AlreadyAdded"
                  THEN ReturnEarly(p, "environment_add_user_package_with_picker",
                                   Ok("AlreadyAdded"))
                  ELSE ToSave(p, "environment_add_user_package_with_picker",
                              added.settings)
    /\ UNCHANGED <<fetch_vars, load_lock, history_vars>>

environment_remove_user_packages(p, path) ==
    /\ procs[p] = ProcIdle
    /\ settings_guard = None
    /\ ToSave(p, "environment_remove_user_packages",
              remove_user_package(settings, path))
    /\ UNCHANGED <<fetch_vars, load_lock, history_vars>>

\* settings.save() succeeds: the changed settings are persisted.  A guard
\* declared in an inner block is dropped here, the others at the return.
SettingsSave(p) ==
    /\ procs[p].pc = "save"
    /\ settings' = procs[p].settings
    /\ procs' = [procs EXCEPT ![p].pc = "clear_cache"]
    /\ settings_guard' = IF procs[p].cmd \in GuardUntilReturn THEN p ELSE None
    /\ UNCHANGED <<fetch_vars, packages_state, load_lock, history_vars>>

\* settings.save() fails: the command returns the error.
SettingsSaveFail(p) ==
    /\ procs[p].pc = "save"
    /\ procs' = [procs EXCEPT ![p] = Failed(procs[p].cmd, Err("io"))]
    /\ settings_guard' = None
    /\ UNCHANGED <<settings, fetch_vars, packages_state, load_lock,
                   history_vars>>

\* The caller of p takes the value p returned.
ReceiveResult(p) ==
    /\ procs[p].pc = "returned"
    /\ procs' = [procs EXCEPT ![p] = ProcIdle]
    /\ UNCHANGED <<settings, fetch_vars, packages_state, load_lock,
                   settings_guard, history_vars>>

\* Variant: the command returns without calling clear_cache.
ClearCacheAndReturn_NoClear(p) ==
    /\ procs[p].pc = "clear_cache"
    /\ procs' = [procs EXCEPT ![p] = ProcIdle]
    /\ settings_guard' = IF settings_guard = p THEN None ELSE settings_guard
    /\ h_floor' = packages_state.version
    /\ h_cleared' = TRUE
    /\ h_last_load' = NoLoad
    /\ UNCHANGED <<settings, fetch_vars, packages_state, load_lock,
                   h_max_returned, h_returned, h_force>>

\* packages.clear_cache() and the return of Ok.
ClearCacheAndReturn(p) ==
    /\ procs[p].pc = "clear_cache"
    /\ packages_state' = clear_cache(packages_state)
    /\ procs' = [procs EXCEPT ![p] = ProcIdle]
    /\ settings_guard' = IF settings_guard = p THEN None ELSE settings_guard
    /\ h_floor' = packages_state.version
    /\ h_cleared' = TRUE
    /\ h_last_load' = NoLoad
    /\ UNCHANGED <<settings, fetch_vars, load_lock, h_max_returned,
                   h_returned, h_force>>

\* ------------------------------------------------------------------------
\* Specification of the download commands
\* ------------------------------------------------------------------------

\* The argument lists of a batch: each url is one not in normal form, one
\* in normal form or a malformed one.
Batches ==
    UNION {[1..n -> {"https://a", "https://b/", "not a url"}] : n \in 0..MaxBatch}

\* The download commands start with any settings and with the package
\* cache Empty or Loaded from those settings.
SpecFetchInit ==
    /\ settings \in InitialSettings
    /\ FetchInit
    /\ packages_state \in {EmptyState, Recomputed(0, settings)}
    /\ CacheIdle

SpecFetchNext ==
    \/ \E url \in UrlStrings : environment_download_repository(url)
    \/ \E resp \in Responses : DownloadResponse(resp)
    \/ \E raw \in Batches : environment_import_download_repositories(raw)
    \/ \E i \in 1..MaxBatch : ImportPoll(i)
    \/ \E i \in 1..MaxBatch, resp \in Responses : ImportResponse(i, resp)
    \/ ImportJoin
    \/ ImportCancel
    \/ ChannelClose

SpecFetch == SpecFetchInit /\ [][SpecFetchNext]_vars

\* ------------------------------------------------------------------------
\* Specification of the package-cache commands
\* ------------------------------------------------------------------------

CacheInitialSettings ==
    {[user_repos |-> {}, user_packages |-> {},
      ignore_curated_repository |-> TRUE, ignore_official_repository |-> TRUE],
     [user_repos |-> {StoredA}, user_packages |-> {"/pk"},
      ignore_curated_repository |-> TRUE, ignore_official_repository |-> FALSE]}

SpecCacheInit ==
    /\ settings \in CacheInitialSettings
    /\ FetchInit
    /\ CacheInit

SpecCacheNext ==
    \/ \E p \in Procs : environment_packages(p)
    \/ \E p \in Procs : environment_refetch_packages(p)
    \/ \E p \in Procs : RecomputeCommit(p)
    \/ \E p \in Procs : RecomputeFail(p)
    \/ \E p \in Procs, url \in AddUrlStrings : environment_add_repository(p, url)
    \/ \E p \in Procs, id \in RemoveIds : environment_remove_repository(p, id)
    \/ \E p \in Procs, list \in ImportLists :
            environment_import_add_repositories(p, list)
    \/ \E p \in Procs : environment_clear_package_cache(p)
    \/ \E p \in Procs, pick \in Picks :
            environment_add_user_package_with_picker(p, pick)
    \/ \E p \in Procs, path \in UserPackagePaths :
            environment_remove_user_packages(p, path)
    \/ \E p \in Procs : SettingsSave(p)
    \/ \E p \in Procs : ReceiveResult(p)
    \/ \E p \in Procs : SettingsSaveFail(p)
    \/ \E p \in Procs : ClearCacheAndReturn(p)

SpecCache == SpecCacheInit /\ [][SpecCacheNext]_vars

\* ------------------------------------------------------------------------
\* Properties of the download commands
\* ------------------------------------------------------------------------

\* The known sets before the command ran (the settings do not change while a
\* download command runs).
KnownUrls == user_repo_urls(settings)
KnownIds == user_repo_ids(settings)

ImportReturnedOk ==
    command.name = "import" /\ command.pc = "returned" /\ result.kind = "Ok"

\* Future i sent its request and got a document back.
Fetched(i) == futures[i].pc = "done" /\ IsDocument(futures[i].repo)

\* The indices of the batch whose fetch resolved to id.
ResolvingTo(id) ==
    {i \in 1..Len(futures) :
        Fetched(i) /\ ResolvedId(futures[i].repo, repositories[i]) = id}

Least(S) == CHOOSE i \in S : \A j \in S : i <= j

ResolvedIds == {ResolvedId(d, u) : d \in Documents, u \in Urls}

\* Of the descriptors resolving to id, the earliest submitted is Success and
\* every other one is Duplicated.
OneSuccessEarliest(id) ==
    LET S == ResolvingTo(id)
    IN /\ IsSuccess(result.value[Least(S)][2])
       /\ result.value[Least(S)][2].value.id = id
       /\ \A i \in S \ {Least(S)} : result.value[i][2] = Duplicated

\* C1 as stated: in a completed batch, whenever two or more descriptors
\* resolve to the same id, the earliest of them in submission order is
\* Success and every other one is Duplicated.
C1_Original ==
    ImportReturnedOk =>
        \A id \in ResolvedIds :
            Cardinality(ResolvingTo(id)) >= 2 => OneSuccessEarliest(id)

\* C1 amended: in a completed batch, whenever two or more descriptors resolve
\* to the same id and that id is not already in the known-id set, the
\* earliest of them in submission order is Success and every other one is
\* Duplicated; when the id is already known all of them are Duplicated.
C1_BatchDedup ==
    ImportReturnedOk =>
        \A id \in ResolvedIds :
            Cardinality(ResolvingTo(id)) >= 2 =>
                IF id \in KnownIds
                THEN \A i \in ResolvingTo(id) : result.value[i][2] = Duplicated
                ELSE OneSuccessEarliest(id)

\* Two descriptors resolved to the same unknown id, the later submitted one
\* completed first, and the result keeps the first and downgrades the second.
C1_Witness ==
    /\ ImportReturnedOk
    /\ Len(futures) = 2
    /\ ResolvingTo("x") = {1, 2}
    /\ futures[2].count < futures[1].count
    /\ IsSuccess(result.value[1][2])
    /\ result.value[2][2] = Duplicated

\* C2 as stated: a completed batch of N >= 1 descriptors emitted a strictly
\* increasing sequence of progress values, each the counter's value after
\* the increment of the fetch that emitted it, and emitted N exactly once.
C2_ProgressReachesBatchSize ==
    (ImportReturnedOk /\ Len(futures) >= 1) =>
        /\ \A k \in 1..(Len(emitted) - 1) : emitted[k] < emitted[k + 1]
        /\ Cardinality({k \in 1..Len(emitted) : emitted[k] = Len(futures)}) = 1

\* A download_one_repository call that has returned: its fetch URL, the
\* network's answer (NoAnswer when no request was sent) and its outcome.
Calls ==
    {[url |-> repositories[i], repo |-> futures[i].repo,
      out |-> futures[i].downloaded] :
        i \in {j \in 1..Len(futures) : futures[j].pc = "done"}}
    \cup (IF command.name = "download" /\ command.pc = "returned"
             /\ futures = <<>> /\ repositories # <<>>
          THEN {[url |-> repositories[1], repo |-> NoAnswer, out |-> result.value]}
          ELSE {})

\* C3 as stated: a call returns Duplicated whenever the resolved URL is a
\* known URL or the resolved id is a known id.
C3_Original ==
    \A c \in Calls :
        (/\ IsDocument(c.repo)
         /\ \/ ResolvedUrl(c.repo, c.url) \in KnownUrls
            \/ ResolvedId(c.repo, c.url) \in KnownIds) => c.out = Duplicated

\* C3 amended: a call returns Duplicated whenever its fetch URL is a known
\* URL, and whenever it fetched a document whose resolved id is a known id;
\* a call fetched from an unknown URL whose document declares a known URL
\* and resolves to an unknown id returns Success.
C3_DuplicateRule ==
    \A c \in Calls :
        /\ c.url \in KnownUrls => c.out = Duplicated
        /\ (IsDocument(c.repo) /\ ResolvedId(c.repo, c.url) \in KnownIds)
                => c.out = Duplicated
        /\ (/\ IsDocument(c.repo)
            /\ c.url \notin KnownUrls
            /\ ResolvedUrl(c.repo, c.url) \in KnownUrls
            /\ ResolvedId(c.repo, c.url) \notin KnownIds)
                => c.out = Success(RemoteRepositoryInfo(c.repo, c.url))

\* A call fetched from an unknown URL got a document declaring a known URL
\* and no id, and returned Success.
C3_Witness ==
    \E c \in Calls :
        /\ IsDocument(c.repo)
        /\ c.url \notin KnownUrls
        /\ c.repo.url \in KnownUrls
        /\ c.repo.id = None
        /\ IsSuccess(c.out)

\* C8: a candidate whose URL is in the known-URL set sends no request, in
\* the single download and in every batch item, and its outcome is
\* Duplicated.
C8_KnownUrlNoFetch ==
    \A i \in 1..Len(repositories) :
        repositories[i] \in KnownUrls =>
            /\ \A n \in net : n.task # i
            /\ \A c \in Calls : c.url = repositories[i] => c.out = Duplicated
            /\ i \in 1..Len(futures) =>
                    /\ futures[i].pc # "fetching"
                    /\ futures[i].repo = NoAnswer
            /\ (command.pc = "returned" /\ command.name = "download")
                    => result = Ok(Duplicated)
            /\ ImportReturnedOk => result.value[i][2] = Duplicated

\* A batch returned in which the first descriptor, given as "https://a", was
\* a known URL and sent no request while the second one was fetched.
C8_Witness ==
    /\ ImportReturnedOk
    /\ command.args = <<"https://a", "https://b/">>
    /\ repositories[1] \in KnownUrls
    /\ result.value[1][2] = Duplicated
    /\ net = {[task |-> 2, url |-> "https://b/"]}

\* Some argument of the command is a malformed URL string.
MalformedArgs == {k \in 1..Len(command.args) : ParseUrl(command.args[k]) = ParseError}

\* C9 as stated: a download command called with a malformed URL string
\* returns the outcome BadUrl for it (the batch as the outcome of that
\* entry), not an error, and sends no request.
C9_MalformedIsBadUrl ==
    (command.pc = "returned" /\ MalformedArgs # {}) =>
        /\ result.kind = "Ok"
        /\ net = {}
        /\ command.name = "download" => result.value = BadUrl
        /\ command.name = "import" =>
                \A k \in MalformedArgs : result.value[k][2] = BadUrl

\* C10: a call whose fetch URL is not known and whose fetched document
\* resolves to a known id returns Duplicated; a call returns Success only
\* when neither its fetch URL nor its resolved id is known.
C10_PostFetchDedup ==
    \A c \in Calls :
        /\ (/\ c.url \notin KnownUrls
            /\ IsDocument(c.repo)
            /\ ResolvedId(c.repo, c.url) \in KnownIds) => c.out = Duplicated
        /\ IsSuccess(c.out) =>
                /\ c.url \notin KnownUrls
                /\ IsDocument(c.repo)
                /\ c.out.value.id = ResolvedId(c.repo, c.url)
                /\ c.out.value.id \notin KnownIds

\* The single download fetched an unknown URL, the document declared the
\* known id "a.repo", and the command returned Duplicated.
C10_Witness ==
    /\ command.name = "download"
    /\ command.pc = "returned"
    /\ net # {}
    /\ repositories[1] \notin KnownUrls
    /\ IsDocument(futures[1].repo)
    /\ futures[1].repo.id = "a.repo"
    /\ "a.repo" \in KnownIds
    /\ result = Ok(Duplicated)

\* The batch command ran to its end: it was called with descriptors that
\* deserialise, read the settings, and was not cancelled.
ImportCompleted ==
    /\ command.name = "import"
    /\ command.pc = "returned"
    /\ result # Cancelled
    /\ result # Err("io")
    /\ result # Err("invalid args")

\* s without its element i.
SeqWithout(s, i) ==
    [k \in 1..(Len(s) - 1) |-> IF k < i THEN s[k] ELSE s[k + 1]]

\* The batch items whose request met a transport or parse failure.
FailedItems == {i \in 1..Len(futures) : futures[i].repo = NetError}

\* C11: a batch that is not cancelled and meets no infrastructure failure
\* returns a list with one terminal outcome per descriptor, each paired with
\* its descriptor in submission order; an item whose download failed has the
\* outcome DownloadError with the failure's message, and the other items
\* have the outcomes the batch without that item would have given them.
C11_FailureIsPerItem ==
    /\ ImportCompleted => result.kind = "Ok"
    /\ ImportReturnedOk =>
        /\ Len(result.value) = Len(command.args)
        /\ \A i \in 1..Len(result.value) :
            /\ result.value[i][1] = ParseUrl(command.args[i])
            /\ result.value[i][2].type \in {"Duplicated", "DownloadError", "Success"}
        /\ \A i \in FailedItems :
            /\ result.value[i][2] = DownloadError(NetError.error)
            /\ SeqWithout(result.value, i)
                = DedupPass(SeqWithout(Joined, i), KnownIds).results

\* A batch of two returned: the first download failed, the second succeeded.
C11_Witness ==
    /\ ImportReturnedOk
    /\ Len(result.value) = 2
    /\ FailedItems = {1}
    /\ result.value[1][2] = DownloadError("e")
    /\ IsSuccess(result.value[2][2])

\* C12: no step of a download command, whether the command completes,
\* fails or is cancelled, changes the persisted settings (the repository
\* list among them) or the package cache; a cancelled batch has returned no
\* outcome list and never returns one.
C12_DownloadsChangeNothing ==
    /\ [][settings' = settings /\ packages_state' = packages_state]_vars
    /\ [](result = Cancelled => command.pc = "returned")
    /\ [][result = Cancelled => result' = Cancelled]_vars

\* A batch was cancelled after one of its items had fetched a document and
\* emitted its progress, while the cache was Loaded.
C12_Witness ==
    /\ command.name = "import"
    /\ result = Cancelled
    /\ net # {}
    /\ emitted # <<>>
    /\ packages_state.state = "Loaded"
    /\ settings.user_repos = {StoredA}

\* A step in which a batch item passes its progress value to ctx.emit.
Emits == emitted' # emitted

C14_IdentityResolution ==
    \A c \in Calls :
        IsDocument(c.repo) =>
            /\ c.out.type \in {"Success", "Duplicated"}
            /\ IsSuccess(c.out) =>
                /\ c.out.value.url
                    = (IF c.repo.url # None THEN c.repo.url ELSE c.url)
                /\ c.out.value.id
                    = (IF c.repo.id # None THEN c.repo.id ELSE c.out.value.url)
                /\ c.out.value.display_name
                    = (IF c.repo.name # None THEN c.repo.name
                       ELSE c.out.value.id)

\* A call fetched from "https://b/" got a document that declares the url
\* "https://a/" and neither id nor name: all three fields are that url.
C14_Witness ==
    \E c \in Calls :
        /\ c.url = "https://b/"
        /\ c.repo = [kind |-> "document", url |-> "https://a/", id |-> None,
                     name |-> None]
        /\ c.out = Success([id |-> "https://a/", url |-> "https://a/",
                            display_name |-> "https://a/"])

\* C16: while a download command runs, its known-URL set holds the url of
\* every stored user repository that has one, the curated URL if the curated
\* repository is not ignored, the official URL if the official repository is
\* not ignored, and nothing else; and its known-id set holds the same of the
\* ids.
C16_KnownSets ==
    command.pc = "running" =>
        /\ \A r \in settings.user_repos :
            /\ r.url # None => r.url \in known.urls
            /\ r.id # None => r.id \in known.ids
        /\ ~settings.ignore_curated_repository
                => (CuratedUrl \in known.urls /\ CuratedId \in known.ids)
        /\ ~settings.ignore_official_repository
                => (OfficialUrl \in known.urls /\ OfficialId \in known.ids)
        /\ \A u \in known.urls :
            \/ u # None /\ \E r \in settings.user_repos : r.url = u
            \/ u = CuratedUrl /\ ~settings.ignore_curated_repository
            \/ u = OfficialUrl /\ ~settings.ignore_official_repository
        /\ \A id \in known.ids :
            \/ id # None /\ \E r \in settings.user_repos : r.id = id
            \/ id = CuratedId /\ ~settings.ignore_curated_repository
            \/ id = OfficialId /\ ~settings.ignore_official_repository

\* A command runs with two stored repositories, one of them without an id,
\* the curated repository ignored and the official one not.
C16_Witness ==
    /\ command.pc = "running"
    /\ settings.user_repos = {StoredA, StoredB}
    /\ settings.ignore_curated_repository
    /\ known.urls = {"https://a/", "https://b/", OfficialUrl}
    /\ known.ids = {"a.repo", OfficialId}

\* Every future of the batch has completed.
AllDone == \A i \in 1..Len(futures) : futures[i].pc = "done"

\* C17: while the futures of a batch run, the known-URL and known-id sets
\* are the ones taken from the settings when the command started and no
\* step changes them; the only step that changes the known ids is the
\* re-pass, taken when every future has completed, and it leaves the known
\* URLs alone; so the outcome of each future is the one its own answer gives
\* against the sets taken at the start, whatever its siblings have done.
C17_KnownSetsAreSnapshots ==
    /\ [][(command.pc = "running" /\ command'.pc = "running")
            => known' = known]_vars
    /\ [][(command.pc = "running" /\ known' # known)
            => /\ command.name = "import"
               /\ AllDone
               /\ command'.pc = "returned"
               /\ known'.urls = known.urls]_vars
    /\ [](command.pc = "running"
            => /\ known = [urls |-> KnownUrls, ids |-> KnownIds]
               /\ \A i \in 1..Len(futures) :
                    futures[i].pc = "done" =>
                        futures[i].downloaded
                            = download_one_repository(
                                repositories[i], futures[i].repo,
                                KnownUrls, KnownIds).out)

\* Both futures of a running batch have completed with Success for the same
\* id, the second before the first, and the known ids are still those of
\* the settings.
C17_Witness ==
    /\ command.name = "import"
    /\ command.pc = "running"
    /\ Len(futures) = 2
    /\ AllDone
    /\ futures[2].count < futures[1].count
    /\ IsSuccess(futures[1].downloaded)
    /\ IsSuccess(futures[2].downloaded)
    /\ futures[1].downloaded.value.id = futures[2].downloaded.value.id
    /\ known.ids = KnownIds

\* The items of the returned list that are Success.
Successes == {i \in 1..Len(result.value) : IsSuccess(result.value[i][2])}

\* C18: in the list a completed batch returns, the ids of the Success
\* outcomes are pairwise distinct and none is in the known-id set of the
\* settings; the list pairs the descriptors, in their order, with the
\* outcomes the futures gave, except that some Success outcomes have become
\* Duplicated.
C18_RePassResult ==
    ImportReturnedOk =>
        /\ \A i, j \in Successes :
            i # j => result.value[i][2].value.id # result.value[j][2].value.id
        /\ \A i \in Successes : result.value[i][2].value.id \notin KnownIds
        /\ Len(result.value) = Len(futures)
        /\ \A i \in 1..Len(result.value) :
            /\ result.value[i][1] = repositories[i]
            /\ \/ result.value[i][2] = futures[i].downloaded
               \/ /\ IsSuccess(futures[i].downloaded)
                  /\ result.value[i][2] = Duplicated

\* A batch of two returned: the first future's Success, with the name its
\* document declared, is kept as it was, and the second future's Success for
\* the same id has become Duplicated.
C18_Witness ==
    /\ ImportReturnedOk
    /\ Len(result.value) = 2
    /\ IsSuccess(futures[1].downloaded)
    /\ futures[1].downloaded.value.display_name = "N"
    /\ result.value[1][2] = futures[1].downloaded
    /\ IsSuccess(futures[2].downloaded)
    /\ result.value[2][2] = Duplicated

\* C19: a batch of N descriptors that ran to completion has passed N values
\* to emit, pairwise distinct and together exactly 0 .. N-1, each the value
\* of the counter before the increment of the future that emitted it, and
\* the counter is N.
C19_ProgressValues ==
    ImportReturnedOk =>
        /\ Len(emitted) = Len(command.args)
        /\ \A k, l \in 1..Len(emitted) : k # l => emitted[k] # emitted[l]
        /\ {emitted[k] : k \in 1..Len(emitted)} = 0..(Len(command.args) - 1)
        /\ \A i \in 1..Len(futures) :
            /\ futures[i].count \in 0..(Len(command.args) - 1)
            /\ emitted[futures[i].count + 1] = futures[i].count
        /\ \A i, j \in 1..Len(futures) :
            i # j => futures[i].count # futures[j].count
        /\ counter = Len(command.args)

\* A batch of two returned after emitting 0 for its second descriptor and
\* then 1 for its first.
C19_Witness ==
    /\ ImportReturnedOk
    /\ Len(command.args) = 2
    /\ emitted = <<0, 1>>
    /\ futures[2].count = 0
    /\ futures[1].count = 1
    /\ counter = 2

\* ------------------------------------------------------------------------
\* Properties of the package cache
\* ------------------------------------------------------------------------

\* The commands that change the settings or the downloaded files.
MutatingCommands ==
    {"environment_add_repository", "environment_remove_repository",
     "environment_import_add_repositories", "environment_clear_package_cache",
     "environment_add_user_package_with_picker",
     "environment_remove_user_packages"}

\* A step in which a recomputation commits a new snapshot.
Commit == packages_state' # packages_state /\ packages_state'.state = "Loaded"

\* A step in which mutating command p returns Ok.
ReturnsOk(p) ==
    /\ procs[p].cmd \in MutatingCommands
    /\ procs[p].pc = "clear_cache"
    /\ procs'[p] = ProcIdle

\* C4: once a mutating command has returned Ok, what environment_packages
\* gets from load has a version above that of every snapshot built before
\* that return, whatever is interleaved; and a recomputation never commits a
\* snapshot under a version the cache has already had, so that no two
\* different snapshots carry the same version.
C4_FreshAfterMutation ==
    /\ [](h_last_load.valid => h_last_load.snapshot.version > h_floor)
    /\ [][Commit => packages_state'.version > packages_state.version]_vars

C4_Witness ==
    /\ h_floor >= 1
    /\ h_last_load.valid
    /\ h_last_load.snapshot.version > h_floor
    /\ \E p \in Procs : procs[p].pc \in {"save", "clear_cache"}

\* C5: the versions load and load_force return never decrease, and the first
\* one returned after a clear_cache is strictly greater than every version
\* returned before it.
C5_VersionsMonotonic ==
    [][/\ h_returned' >= h_max_returned
       /\ (h_cleared /\ ~h_cleared') => h_returned' > h_max_returned]_vars

C5_Witness ==
    /\ h_floor >= 1
    /\ ~h_cleared
    /\ h_returned > h_floor
    /\ h_returned = h_max_returned
    /\ packages_state.state = "Loaded"

\* C6: a call of load that follows another with no mutating command's
\* clear_cache and no load_force between them returns the same version and
\* the same package sequence, and leaves the cache as it was (no
\* recomputation).
C6_LoadIdempotent ==
    [][(h_last_load.valid /\ h_last_load'.valid /\ h_last_load' # h_last_load)
        => /\ h_last_load'.snapshot = h_last_load.snapshot
           /\ h_last_load'.response = h_last_load.response
           /\ packages_state' = packages_state]_vars

C6_Witness ==
    /\ h_last_load.valid
    /\ h_last_load.calls >= 2
    /\ Len(h_last_load.snapshot.packages) >= 2

\* C7: every mutating command that returns Ok has called clear_cache after
\* its change was saved: it reaches clear_cache only by the step that
\* persists its settings, the cache is Empty when it returns, and the first
\* return of a load after that comes from a recomputation.
C7_ClearAfterPersist ==
    [][/\ \A p \in Procs :
            /\ ReturnsOk(p) => packages_state'.state = "Empty"
            /\ (/\ procs[p].cmd \in MutatingCommands
                /\ procs[p].pc # "clear_cache"
                /\ procs'[p].pc = "clear_cache")
               => /\ procs[p].pc = "save"
                  /\ settings' = procs[p].settings
       /\ (h_cleared /\ ~h_cleared')
          => (packages_state.state = "Empty" /\ Commit)]_vars

C7_Witness ==
    /\ h_cleared
    /\ packages_state.state = "Empty"
    /\ h_floor >= 1
    /\ \A p \in Procs : procs[p] = ProcIdle
    /\ settings \notin CacheInitialSettings


\* A step in which load_force returns its snapshot to process p.
ForceReturns(p) ==
    /\ procs[p].cmd = "environment_refetch_packages"
    /\ procs'[p] = ProcIdle
    /\ h_force' # h_force

\* C15: load_force, called with the cache Empty or Loaded, commits a newly
\* computed snapshot in place of the one there was, and the version it
\* returns is strictly greater than every version returned before.
C15_LoadForceRecomputes ==
    /\ [](h_force.valid => h_force.returned > h_force.max_before)
    /\ [][\A p \in Procs :
            ForceReturns(p) =>
                /\ packages_state'.state = "Loaded"
                /\ packages_state'.version > packages_state.version
                /\ packages_state'.packages = PackagesOf(procs[p].settings)
                /\ h_force'.returned = packages_state'.version]_vars

\* load_force was called on a Loaded cache whose version 1 had been returned
\* and returned version 2.
C15_Witness ==
    /\ h_force.valid
    /\ h_force.from = "Loaded"
    /\ h_force.max_before = 1
    /\ h_force.returned = 2
    /\ packages_state.state = "Loaded"
    /\ packages_state.version = 2


\* A step in which process p returns without success.
Fails(p) == procs[p].pc # "returned" /\ procs'[p].pc = "returned"

\* C20: a mutating command that returns without success (BadUrl or an error
\* of add_remote_repo from environment_add_repository, an error of any
\* add_remote_repo from environment_import_add_repositories,
\* NoFolderSelected, InvalidSelection or AlreadyAdded from
\* environment_add_user_package_with_picker, or an error of a save) has not
\* saved: the step that returns leaves the persisted settings and the cache
\* as they were, and the command had not got past its save.
C20_FailureChangesNothing ==
    [][\A p \in Procs :
        Fails(p) =>
            /\ settings' = settings
            /\ packages_state' = packages_state
            /\ procs[p].pc \in {"idle", "save"}
            /\ procs'[p].cmd \in MutatingCommands]_vars

\* environment_import_add_repositories has returned the error of its second
\* repository (the first was added to the settings it held, not yet stored)
\* while the other process does nothing: the stored settings have no
\* repository and the cache, loaded before, is still Loaded.
C20_Witness ==
    /\ \E p \in Procs :
        /\ procs[p] = Failed("environment_import_add_repositories",
                             Err("already added"))
        /\ \A q \in Procs \ {p} : procs[q] = ProcIdle
    /\ settings.user_repos = {}
    /\ packages_state.state = "Loaded"
    /\ h_floor = 0


\* ------------------------------------------------------------------------
\* environment_packages, statement by statement
\* ------------------------------------------------------------------------

\* The commands run on a multi-threaded runtime: between two statements of
\* environment_packages, and between two entries of the Vec it collects,
\* another command may call clear_cache or commit a load_force.  Here the
\* command is followed statement by statement; the local variable packages
\* is what packages.load handed out.

\* What of the cache a step of the command could see: its state and version.
Live == [state |-> packages_state.state, version |-> packages_state.version]

\* Lines 87-88: settings.load, then packages.load, which hands out the
\* snapshot of a Loaded cache and starts the recomputation of an Empty one.
environment_packages_load(p) ==
    /\ procs[p] = ProcIdle
    /\ IF packages_state.state = "Loaded"
       THEN /\ procs' = [procs EXCEPT ![p] =
                            [cmd |-> "environment_packages", pc |-> "version",
                             settings |-> NoSettings,
                             packages |-> Snapshot(packages_state)]]
            /\ UNCHANGED load_lock
       ELSE /\ load_lock = None
            /\ load_lock' = p
            /\ procs' = [procs EXCEPT ![p] =
                            [cmd |-> "environment_packages", pc |-> "load",
                             settings |-> settings,
                             version |-> packages_state.version]]
    /\ UNCHANGED <<settings, fetch_vars, packages_state, settings_guard,
                   history_vars>>

\* Line 88: the recomputation ends, the new snapshot is committed and handed
\* out.
environment_packages_loaded(p) ==
    /\ procs[p].pc = "load"
    /\ packages_state.version < MaxVersion
    /\ LET new == Recomputed(procs[p].version, procs[p].settings)
       IN /\ packages_state' = new
          /\ procs' = [procs EXCEPT ![p] =
                          [cmd |-> "environment_packages", pc |-> "version",
                           settings |-> NoSettings,
                           packages |-> Snapshot(new)]]
    /\ load_lock' = None
    /\ UNCHANGED <<settings, fetch_vars, settings_guard, history_vars>>

\* Line 88: the recomputation fails and the ? returns its error.
environment_packages_load_failed(p) ==
    /\ procs[p].pc = "load"
    /\ procs' = [procs EXCEPT ![p] =
                    Failed("environment_packages", Err("io"))]
    /\ load_lock' = None
    /\ UNCHANGED <<settings, fetch_vars, packages_state, settings_guard,
                   history_vars>>

\* Line 90: let version = packages.version();
environment_packages_version(p) ==
    /\ procs[p].pc = "version"
    /\ procs' = [procs EXCEPT ![p] =
                    [cmd |-> "environment_packages", pc |-> "collect",
                     settings |-> NoSettings,
                     packages |-> procs[p].packages,
                     version |-> procs[p].packages.version,
                     response |-> <<>>,
                     seen |-> Live, raced |-> FALSE]]
    /\ UNCHANGED <<settings, fetch_vars, packages_state, load_lock,
                   settings_guard, history_vars>>

\* One entry more of the response of p, built with env_version.  seen and
\* raced are history: the cache as it was when the entry before was built,
\* and whether it changed between two entries.
Collected(p, env_version) ==
    LET index == Len(procs[p].response)
        value == procs[p].packages.packages[index + 1]
    IN [procs[p] EXCEPT
            !.response = Append(@, TauriPackage(env_version, index, value)),
            !.seen = Live,
            !.raced = @ \/ (index > 0 /\ Live # procs[p].seen)]

\* Variant: each entry takes the version the cache has when it is built.
environment_packages_collect_LiveVersion(p) ==
    /\ procs[p].pc = "collect"
    /\ Len(procs[p].response) < Len(procs[p].packages.packages)
    /\ procs' = [procs EXCEPT ![p] = Collected(p, packages_state.version)]
    /\ UNCHANGED <<settings, fetch_vars, packages_state, load_lock,
                   settings_guard, history_vars>>

\* Lines 92-96: the next (index, value) of packages.packages().enumerate()
\* is mapped to TauriPackage::new(version, index, value).
environment_packages_collect(p) ==
    /\ procs[p].pc = "collect"
    /\ Len(procs[p].response) < Len(procs[p].packages.packages)
    /\ procs' = [procs EXCEPT ![p] = Collected(p, procs[p].version)]
    /\ UNCHANGED <<settings, fetch_vars, packages_state, load_lock,
                   settings_guard, history_vars>>

\* Lines 92-96: the iterator is exhausted and Ok(Vec) is returned.
environment_packages_return(p) ==
    /\ procs[p].pc = "collect"
    /\ Len(procs[p].response) = Len(procs[p].packages.packages)
    /\ procs' = [procs EXCEPT ![p] =
                    [cmd |-> "environment_packages", pc |-> "returned",
                     settings |-> NoSettings,
                     result |-> Ok(procs[p].response),
                     packages |-> procs[p].packages,
                     raced |-> procs[p].raced]]
    /\ UNCHANGED <<settings, fetch_vars, packages_state, load_lock,
                   settings_guard, history_vars>>

\* environment_packages statement by statement, next to the commands that
\* change the cache: load_force, clear_cache and the user-package commands.
SpecResponseNext ==
    \/ \E p \in Procs : environment_packages_load(p)
    \/ \E p \in Procs : environment_packages_loaded(p)
    \/ \E p \in Procs : environment_packages_load_failed(p)
    \/ \E p \in Procs : environment_packages_version(p)
    \/ \E p \in Procs : environment_packages_collect(p)
    \/ \E p \in Procs : environment_packages_return(p)
    \/ \E p \in Procs : ReceiveResult(p)
    \/ \E p \in Procs : environment_refetch_packages(p)
    \/ \E p \in Procs : RecomputeCommit(p)
    \/ \E p \in Procs : RecomputeFail(p)
    \/ \E p \in Procs : environment_clear_package_cache(p)
    \/ \E p \in Procs, pick \in Picks :
            environment_add_user_package_with_picker(p, pick)
    \/ \E p \in Procs, path \in UserPackagePaths :
            environment_remove_user_packages(p, path)
    \/ \E p \in Procs : SettingsSave(p)
    \/ \E p \in Procs : SettingsSaveFail(p)
    \/ \E p \in Procs : ClearCacheAndReturn(p)

SpecResponse == SpecCacheInit /\ [][SpecResponseNext]_vars

\* The entries process p has built so far, or returned.
ResponseOf(p) ==
    IF procs[p].pc = "collect" THEN procs[p].response
    ELSE procs[p].result.value

Building(p) ==
    /\ procs[p].cmd = "environment_packages"
    /\ \/ procs[p].pc = "collect"
       \/ procs[p].pc = "returned" /\ procs[p].result.kind = "Ok"

\* C21: every entry of one environment_packages response carries the
\* version of the one snapshot load handed to the command, and the entry at
\* position i carries index i (from 0) and is the package at position i of
\* that snapshot; a returned response has one entry per package of the
\* snapshot.  This holds whatever clear_cache and load_force do meanwhile.
C21_OneSnapshotPerResponse ==
    \A p \in Procs :
        Building(p) =>
            LET r == ResponseOf(p)
                snapshot == procs[p].packages
            IN /\ Len(r) <= Len(snapshot.packages)
               /\ procs[p].pc = "returned"
                    => Len(r) = Len(snapshot.packages)
               /\ \A i \in 1..Len(r) :
                    /\ r[i] = TauriPackage(snapshot.version, i - 1,
                                           snapshot.packages[i])
                    /\ r[i].env_version = snapshot.version
                    /\ r[i].index = i - 1
               /\ \A i, j \in 1..Len(r) : r[i].env_version = r[j].env_version

\* A response of two entries or more has been returned, the cache changed
\* between two of its entries, and the cache is now past the version the
\* response carries.
C21_Witness ==
    \E p \in Procs :
        /\ Building(p)
        /\ procs[p].pc = "returned"
        /\ procs[p].raced
        /\ Len(procs[p].result.value) >= 2
        /\ packages_state.version > procs[p].packages.version

====
